---- MODULE Spec2Model ----
(***************************************************************************)
(* Rewordly chat front-end (app.py): the text helpers, the context window, *)
(* the rewrite-intent classifier, the inference client and the chat route. *)
(*                                                                         *)
(* A text is a sequence of characters; a character is a one-character      *)
(* string, and a code point outside ASCII is written "U+XXXX".             *)
(***************************************************************************)
EXTENDS Integers, Sequences, FiniteSets, TLC

VARIABLES
    history,    \* session["history"]: the sequence of <<role, text>> turns
    pc,         \* "idle", or "calling" while requests.post is in flight
    req,        \* the request being served or last served
    msg,        \* the message form field of that request
    pre,        \* the history that request found
    prompt,     \* the prompt handed to call_ollama by that request
    calls,      \* requests.post calls issued by that request
    resp,       \* what the backend answered to that request
    reply,      \* what call_ollama returned to that request
    txt_in,     \* text helpers: the input text
    txt_cur,    \* text helpers: the text after the steps applied so far
    stage,      \* text helpers: which steps were applied
    utter,      \* classifier: the utterance
    verdict,    \* classifier: <<>>, or <<b>> once it returned the boolean b
    ctx_hist,   \* context window: the history argument
    ctx_limit,  \* context window: the limit argument
    ctx_out     \* context window: <<"none">> or the transcript returned

sessionVars == <<history, pc, req, msg, pre, prompt, calls, resp, reply>>
textVars    == <<txt_in, txt_cur, stage>>
intentVars  == <<utter, verdict>>
contextVars == <<ctx_hist, ctx_limit, ctx_out>>
vars == <<history, pc, req, msg, pre, prompt, calls, resp, reply,
          txt_in, txt_cur, stage, utter, verdict, ctx_hist, ctx_limit, ctx_out>>

(***************************************************************************)
(* Program constants                                                       *)
(***************************************************************************)
BOT_NAME ==
    <<"R","e","w","o","r","d","l","y">>

\* the greeting a GET seeds an empty history with, before formatting
GREETING ==
    <<"*","*","R","e","w","o","r","d","l","y",":","*","*"," ","H","i","!"," ","U+1F44B"," ",
      "W","h","a","t","U+2019","s"," ","y","o","u","r"," ","g","o","a","l"," ","t","o","d",
      "a","y","U+2014","r","e","p","h","r","a","s","i","n","g",","," ","m","a","k","i","n",
      "g"," ","s","o","m","e","t","h","i","n","g"," ","m","o","r","e"," ","p","r","o","f",
      "e","s","s","i","o","n","a","l",","," ","o","r"," ","i","m","p","r","o","v","i","n",
      "g"," ","c","l","a","r","i","t","y","?","\n","T","i","p",":"," ","p","a","s","t","e",
      " ","a"," ","s","e","n","t","e","n","c","e","/","p","a","r","a","g","r","a","p","h",
      " ","a","n","d"," ","t","e","l","l"," ","m","e"," ","t","h","e"," ","t","o","n","e",
      " ","y","o","u"," ","w","a","n","t",".">>

\* the greeting of a reset, before formatting
RESET_GREETING ==
    <<"*","*","R","e","w","o","r","d","l","y",":","*","*"," ","S","t","a","r","t","i","n",
      "g"," ","a"," ","n","e","w"," ","c","o","n","v","e","r","s","a","t","i","o","n"," ",
      "U+2705","\n","W","h","a","t"," ","w","o","u","l","d"," ","y","o","u"," ","l","i","k",
      "e"," ","h","e","l","p"," ","w","i","t","h"," ","t","o","d","a","y","?">>

\* call_ollama's reply for an absent or empty content field
NO_RESPONSE ==
    <<"I"," ","d","i","d","n","U+2019","t"," ","g","e","t"," ","a"," ","r","e","s","p","o",
      "n","s","e","."," ","P","l","e","a","s","e"," ","t","r","y"," ","a","g","a","i","n",
      ".">>

\* call_ollama's reply when the call raised
UNREACHABLE ==
    <<"U+26A0","U+FE0F"," ","R","e","w","o","r","d","l","y"," ","c","a","n","U+2019","t",
      " ","r","e","a","c","h"," ","O","l","l","a","m","a"," ","r","i","g","h","t"," ","n",
      "o","w",".","<","b","r",">","M","a","k","e"," ","s","u","r","e"," ","t","h","e"," ",
      "O","l","l","a","m","a"," ","a","p","p"," ","i","s"," ","r","u","n","n","i","n","g",
      " ","a","n","d"," ","t","h","e"," ","m","o","d","e","l"," ","i","s"," ","i","n","s",
      "t","a","l","l","e","d",","," ","t","h","e","n"," ","t","r","y"," ","a","g","a","i",
      "n",".">>

command_prefixes ==
    << <<"r","e","p","h","r","a","s","e",":">>,
       <<"r","e","w","r","i","t","e",":">>,
       <<"p","r","o","f","e","s","s","i","o","n","a","l",":">>,
       <<"c","a","s","u","a","l",":">>,
       <<"c","o","n","c","i","s","e",":">>,
       <<"f","i","x",":">>,
       <<"p","o","l","i","s","h",":">> >>

keywords ==
    << <<"r","e","p","h","r","a","s","e">>,
       <<"r","e","w","r","i","t","e">>,
       <<"p","a","r","a","p","h","r","a","s","e">>,
       <<"r","e","w","o","r","d">>,
       <<"w","o","r","d"," ","t","h","i","s">>,
       <<"m","a","k","e"," ","i","t"," ","p","r","o","f","e","s","s","i","o","n","a","l">>,
       <<"m","a","k","e"," ","i","t"," ","f","o","r","m","a","l">>,
       <<"m","a","k","e"," ","i","t"," ","c","a","s","u","a","l">>,
       <<"s","o","u","n","d"," ","b","e","t","t","e","r">>,
       <<"i","m","p","r","o","v","e"," ","t","h","i","s">>,
       <<"p","o","l","i","s","h">>,
       <<"f","i","x"," ","g","r","a","m","m","a","r">>,
       <<"c","o","r","r","e","c","t"," ","t","h","i","s">>,
       <<"c","l","e","a","n"," ","t","h","i","s"," ","u","p">>,
       <<"c","l","a","r","i","f","y">>,
       <<"c","l","e","a","r","e","r">>,
       <<"s","h","o","r","t","e","n">>,
       <<"s","u","m","m","a","r","i","z","e">>,
       <<"m","a","k","e"," ","i","t"," ","c","o","n","c","i","s","e">>,
       <<"t","o","n","e">>,
       <<"m","o","r","e"," ","f","r","i","e","n","d","l","y">>,
       <<"m","o","r","e"," ","c","o","n","f","i","d","e","n","t">> >>

\* the window build_rewordly_prompt asks build_context for
ContextLimit == 5

(***************************************************************************)
(* Python string primitives                                                *)
(***************************************************************************)
NL == "\n"

\* str.strip() with no argument removes these (the ASCII ones the model uses)
Whitespace == {" ", "\t", NL, "\r"}

UpperToLower ==
    "A" :> "a" @@ "B" :> "b" @@ "C" :> "c" @@ "D" :> "d" @@ "E" :> "e" @@ "F" :> "f" @@ "G"
    :> "g" @@ "H" :> "h" @@ "I" :> "i" @@ "J" :> "j" @@ "K" :> "k" @@ "L" :> "l" @@ "M" :>
    "m" @@ "N" :> "n" @@ "O" :> "o" @@ "P" :> "p" @@ "Q" :> "q" @@ "R" :> "r" @@ "S" :> "s"
    @@ "T" :> "t" @@ "U" :> "u" @@ "V" :> "v" @@ "W" :> "w" @@ "X" :> "x" @@ "Y" :> "y" @@
    "Z" :> "z"

LowerChar(c) == IF c \in DOMAIN UpperToLower THEN UpperToLower[c] ELSE c

\* str.lower()
Lower(s) == [i \in 1..Len(s) |-> LowerChar(s[i])]

RECURSIVE LStrip(_)
LStrip(s) ==
    IF s # <<>> /\ Head(s) \in Whitespace THEN LStrip(Tail(s)) ELSE s

RECURSIVE RStrip(_)
RStrip(s) ==
    IF s # <<>> /\ s[Len(s)] \in Whitespace
    THEN RStrip(SubSeq(s, 1, Len(s) - 1)) ELSE s

\* str.strip()
Strip(s) == RStrip(LStrip(s))

\* str.startswith(p)
StartsWith(s, p) == Len(p) <= Len(s) /\ SubSeq(s, 1, Len(p)) = p

Min(S) == CHOOSE x \in S : \A y \in S : x <= y

\* the start positions, from i on, at which k occurs in s
Occurrences(s, k, i) ==
    {p \in i..(Len(s) - Len(k) + 1) : SubSeq(s, p, p + Len(k) - 1) = k}

\* the `in` operator on strings
Contains(s, k) == Occurrences(s, k, 1) # {}

\* str.replace(old, new) from index i on: the occurrences left to right,
\* none overlapping the one before it
RECURSIVE ReplaceFrom(_, _, _, _)
ReplaceFrom(s, old, new, i) ==
    LET P == Occurrences(s, old, i)
    IN  IF P = {} THEN SubSeq(s, i, Len(s))
        ELSE SubSeq(s, i, Min(P) - 1) \o new
             \o ReplaceFrom(s, old, new, Min(P) + Len(old))

Replace(s, old, new) == ReplaceFrom(s, old, new, 1)

\* sep.join(lines)
RECURSIVE Join(_, _)
Join(lines, sep) ==
    IF lines = <<>> THEN <<>>
    ELSE IF Len(lines) = 1 THEN lines[1]
    ELSE lines[1] \o sep \o Join(Tail(lines), sep)

\* seq[start:] for any integer start, as Python slices
SliceFrom(s, start) ==
    LET n == Len(s)
        lo == IF start < 0 THEN (IF start + n < 0 THEN 0 ELSE start + n)
              ELSE (IF start > n THEN n ELSE start)
    IN  SubSeq(s, lo + 1, n)

(***************************************************************************)
(* Helpers of app.py                                                       *)
(***************************************************************************)
OpenB  == <<"<", "b", ">">>
CloseB == <<"<", "/", "b", ">">>
BR     == <<"<", "b", "r", ">">>

\* \*\*(.+?)\*\* tried at index i: the index of the closing "**" of the
\* shortest match (the group holds one character or more, none a line
\* break), 0 when the pattern does not match at i
BoldAt(s, i) ==
    IF i + 1 <= Len(s) /\ s[i] = "*" /\ s[i + 1] = "*"
    THEN LET C == {j \in (i + 3)..(Len(s) - 1) :
                      /\ s[j] = "*" /\ s[j + 1] = "*"
                      /\ \A k \in (i + 2)..(j - 1) : s[k] # NL}
         IN  IF C = {} THEN 0 ELSE Min(C)
    ELSE 0

\* re.sub(r"\*\*(.+?)\*\*", r"<b>\1</b>", s) from index i on: the leftmost
\* match, its replacement, then the rest after the match
RECURSIVE SubBold(_, _)
SubBold(s, i) ==
    LET P == {p \in i..Len(s) : BoldAt(s, p) # 0}
    IN  IF P = {} THEN SubSeq(s, i, Len(s))
        ELSE LET p == Min(P)
                 j == BoldAt(s, p)
             IN  SubSeq(s, i, p - 1) \o OpenB \o SubSeq(s, p + 2, j - 1) \o CloseB
                 \o SubBold(s, j + 2)

format_bot_text(text) ==
    IF text = <<>> THEN <<>>
    ELSE Replace(SubBold(text, 1), <<NL>>, BR)

\* <.*?> tried at index i: the index of the ">" closing the shortest match,
\* 0 when the pattern does not match at i (no "<" there, or a line break or
\* the end of the text before any ">")
TagAt(s, i) ==
    IF s[i] = "<"
    THEN LET C == {j \in (i + 1)..Len(s) :
                      s[j] = ">" /\ \A k \in (i + 1)..(j - 1) : s[k] # NL}
         IN  IF C = {} THEN 0 ELSE Min(C)
    ELSE 0

\* re.sub(r"<.*?>", "", s) from index i on
RECURSIVE SubTags(_, _)
SubTags(s, i) ==
    LET P == {p \in i..Len(s) : TagAt(s, p) # 0}
    IN  IF P = {} THEN SubSeq(s, i, Len(s))
        ELSE SubSeq(s, i, Min(P) - 1) \o SubTags(s, TagAt(s, Min(P)) + 1)

\* re.sub with count=1: only the leftmost tag goes
strip_html_first_only(s) ==
    LET P == {p \in 1..Len(s) : TagAt(s, p) # 0}
    IN  IF P = {} THEN s
        ELSE SubSeq(s, 1, Min(P) - 1) \o SubSeq(s, TagAt(s, Min(P)) + 1, Len(s))

strip_html(s) ==
    IF s = <<>> THEN <<>> ELSE SubTags(s, 1)

Speaker(role) == IF role = "user" THEN <<"Y", "o", "u">> ELSE BOT_NAME

ContextLine(turn) == Speaker(turn[1]) \o <<":", " ">> \o strip_html(turn[2])

build_context(h, limit) ==
    LET recent == SliceFrom(h, -limit)
    IN  Join([i \in 1..Len(recent) |-> ContextLine(recent[i])], <<NL>>)

\* without text.lower().strip()
is_rewrite_intent_no_normalize(text) ==
    \/ \E p \in DOMAIN command_prefixes : StartsWith(text, command_prefixes[p])
    \/ \E k \in DOMAIN keywords : Contains(text, keywords[k])

is_rewrite_intent(text) ==
    LET t == Strip(Lower(text))
    IN  \/ \E p \in DOMAIN command_prefixes : StartsWith(t, command_prefixes[p])
        \/ \E k \in DOMAIN keywords : Contains(t, keywords[k])

\* The prompt is a fixed template around three inserted fields; the record
\* holds the three fields in the order the template places them.
build_rewordly_prompt(h, user_msg) ==
    [context |-> build_context(h, ContextLimit),
     user    |-> user_msg,
     intent  |-> is_rewrite_intent(user_msg)]

(***************************************************************************)
(* The inference backend, as call_ollama sees it                           *)
(***************************************************************************)
None      == <<"None">>        \* an absent or null content field
NonString == <<"int">>         \* a truthy content that is no string
Raised    == <<"Exception">>   \* the try body raised

FailureKinds == {"network_error", "http_error", "bad_json", "non_object"}

\* lines 123-128: the reply text, or Raised where a statement raises
try_body(r) ==
    IF r.kind \in FailureKinds THEN Raised
    ELSE IF r.content = NonString THEN Raised
    ELSE LET text == Strip(IF r.content = None THEN <<>> ELSE r.content)
         IN  IF text # <<>> THEN text ELSE NO_RESPONSE

\* without the except clause
call_ollama_uncaught(r) == try_body(r)

call_ollama(r) ==
    IF try_body(r) = Raised THEN UNREACHABLE ELSE try_body(r)

(***************************************************************************)
(* Bounds and the inputs drawn within them                                 *)
(***************************************************************************)
MaxTurns   == 7    \* turns a session history may reach
MaxTextLen == 5    \* length of the texts given to the text helpers
MaxPad     == 1    \* whitespace characters put around an utterance
MaxCtxLen  == 7    \* turns of the histories given to build_context
MaxLimit   == 6    \* largest limit given to build_context

RECURSIVE SeqsUpTo(_, _)
SeqsUpTo(S, n) ==
    IF n = 0 THEN {<<>>}
    ELSE LET shorter == SeqsUpTo(S, n - 1)
         IN  shorter \cup {Append(s, x) : s \in shorter, x \in S}

\* the message form fields a browser sends
Messages ==
    { <<>>,
      <<" ", NL>>,
      <<"h", "i">>,
      <<" ", "*", "*", "t", "o", "n", "e", "*", "*", NL, "<", "i", ">", "x", " ">> }

\* the action form fields a browser sends: absent means "send"
Actions == {"send", "reset", "edit"}

\* what the backend may answer to one requests.post
Responses ==
    [kind : FailureKinds, content : {None}]
    \cup [kind : {"object"},
          content : { None, <<>>, <<" ", NL>>, NonString,
                      <<" ", "O", "K", ".", NL>>,
                      <<"*", "*", "C", "a", "s", "u", "a", "l", ":", "*", "*", NL, "y", "o">> }]

NoRequest == [method |-> "none", action |-> "none"]
NoPrompt  == [context |-> <<>>, user |-> <<>>, intent |-> FALSE]
NoResp    == [kind |-> "none", content |-> None]

(***************************************************************************)
(* The chat route                                                          *)
(***************************************************************************)
Turn(role, text) == <<role, text>>

\* a GET that starts the list anew whatever it holds
SeedGreetingFresh(h) ==
    Append(<<>>, Turn("bot", format_bot_text(GREETING)))

\* lines 150-157: a GET seeds an empty history with the greeting
SeedGreeting(h) ==
    IF h = <<>> THEN Append(h, Turn("bot", format_bot_text(GREETING))) ELSE h

\* a reset without `history = []`
ResetHistoryKeepsTurns(h) ==
    Append(h, Turn("bot", format_bot_text(RESET_GREETING)))

\* lines 163-165: reset starts a fresh list holding the restart greeting
ResetHistory(h) ==
    Append(<<>>, Turn("bot", format_bot_text(RESET_GREETING)))

\* the message field without .strip()
UserMsgUnstripped(m) == m

\* line 169
UserMsg(m) == Strip(m)

\* line 171
WithUserTurn(h, user_msg) == Append(h, Turn("user", format_bot_text(user_msg)))

\* the prompt built before the user turn is appended
SendPromptBeforeTurn(h, user_msg) == build_rewordly_prompt(h, user_msg)

\* lines 171-173: the prompt is built from the history that holds the user turn
SendPrompt(h, user_msg) == build_rewordly_prompt(WithUserTurn(h, user_msg), user_msg)

\* line 176
WithBotTurn(h, raw_reply) == Append(h, Turn("bot", format_bot_text(raw_reply)))

SessionIdle ==
    /\ pc = "idle"
    /\ UNCHANGED <<textVars, intentVars, contextVars>>

ChatGet ==
    /\ SessionIdle
    /\ history' = SeedGreeting(history)
    /\ req' = [method |-> "GET", action |-> "none"]
    /\ msg' = <<>>
    /\ pre' = history
    /\ prompt' = NoPrompt
    /\ calls' = 0
    /\ reply' = None
    /\ resp' = NoResp
    /\ pc' = "idle"

ChatPostReset ==
    /\ SessionIdle
    /\ \E m \in Messages :
        /\ history' = ResetHistory(history)
        /\ req' = [method |-> "POST", action |-> "reset"]
        /\ msg' = m
    /\ pre' = history
    /\ prompt' = NoPrompt
    /\ calls' = 0
    /\ reply' = None
    /\ resp' = NoResp
    /\ pc' = "idle"

\* a POST that is no reset and whose stripped message is empty
ChatPostIgnored ==
    /\ SessionIdle
    /\ \E a \in Actions \ {"reset"}, m \in Messages :
        /\ UserMsg(m) = <<>>
        /\ req' = [method |-> "POST", action |-> a]
        /\ msg' = m
    /\ history' = history
    /\ pre' = history
    /\ prompt' = NoPrompt
    /\ calls' = 0
    /\ reply' = None
    /\ resp' = NoResp
    /\ pc' = "idle"

\* a POST that is no reset and carries a message: lines 171-174, up to the
\* requests.post that blocks the handler
ChatPostSend ==
    /\ SessionIdle
    /\ Len(history) + 2 <= MaxTurns
    /\ \E a \in Actions \ {"reset"}, m \in Messages :
        /\ UserMsg(m) # <<>>
        /\ req' = [method |-> "POST", action |-> a]
        /\ msg' = m
        /\ history' = WithUserTurn(history, UserMsg(m))
        /\ prompt' = SendPrompt(history, UserMsg(m))
    /\ pre' = history
    /\ calls' = 1
    /\ reply' = None
    /\ resp' = NoResp
    /\ pc' = "calling"

\* a second attempt after a failed one (the code makes none)
OllamaReturnsRetrying ==
    /\ pc = "calling"
    /\ \E r \in Responses :
        /\ resp' = r
        /\ IF try_body(r) = Raised /\ calls < 2
           THEN /\ calls' = calls + 1
                /\ UNCHANGED <<history, reply, pc>>
           ELSE /\ reply' = call_ollama(r)
                /\ history' = WithBotTurn(history, call_ollama(r))
                /\ pc' = "idle"
                /\ UNCHANGED calls
    /\ UNCHANGED <<req, msg, pre, prompt>>
    /\ UNCHANGED <<textVars, intentVars, contextVars>>

\* requests.post returns or raises; lines 124-137 and 176-179
OllamaReturns ==
    /\ pc = "calling"
    /\ \E r \in Responses :
        /\ resp' = r
        /\ reply' = call_ollama(r)
        /\ history' = WithBotTurn(history, call_ollama(r))
    /\ pc' = "idle"
    /\ UNCHANGED <<req, msg, pre, prompt, calls>>
    /\ UNCHANGED <<textVars, intentVars, contextVars>>

Init ==
    /\ history = <<>>
    /\ pc = "idle"
    /\ req = NoRequest
    /\ msg = <<>>
    /\ pre = <<>>
    /\ prompt = NoPrompt
    /\ calls = 0
    /\ reply = None
    /\ resp = NoResp
    /\ txt_in = <<>>
    /\ txt_cur = <<>>
    /\ stage = "none"
    /\ utter = <<>>
    /\ verdict = <<>>
    /\ ctx_hist = <<>>
    /\ ctx_limit = 0
    /\ ctx_out = None

Next ==
    \/ ChatGet
    \/ ChatPostReset
    \/ ChatPostIgnored
    \/ ChatPostSend
    \/ OllamaReturns

Spec == Init /\ [][Next]_vars

(***************************************************************************)
(* The text helpers applied to arbitrary texts                             *)
(***************************************************************************)
TextAlphabet == {"a", "*", "<", ">", NL}

InitText ==
    /\ txt_in \in SeqsUpTo(TextAlphabet, MaxTextLen)
    /\ txt_cur = txt_in
    /\ stage = "raw"
    /\ history = <<>> /\ pc = "idle" /\ req = NoRequest /\ msg = <<>> /\ pre = <<>>
    /\ prompt = NoPrompt /\ calls = 0 /\ reply = None /\ resp = NoResp
    /\ utter = <<>> /\ verdict = <<>>
    /\ ctx_hist = <<>> /\ ctx_limit = 0 /\ ctx_out = None

\* format_bot_text on a raw text, as the route does before storing a turn
Format ==
    /\ stage = "raw"
    /\ txt_cur' = format_bot_text(txt_cur)
    /\ stage' = "formatted"
    /\ UNCHANGED <<txt_in, sessionVars, intentVars, contextVars>>

\* strip_html on a raw text
Sanitize ==
    /\ stage = "raw"
    /\ txt_cur' = strip_html(txt_cur)
    /\ stage' = "sanitized"
    /\ UNCHANGED <<txt_in, sessionVars, intentVars, contextVars>>

\* strip_html on a stored (formatted) text, as build_context does
SanitizeStored ==
    /\ stage = "formatted"
    /\ txt_cur' = strip_html(txt_cur)
    /\ stage' = "fed_back"
    /\ UNCHANGED <<txt_in, sessionVars, intentVars, contextVars>>

NextText == Format \/ Sanitize \/ SanitizeStored

SpecText == InitText /\ [][NextText]_vars

(***************************************************************************)
(* The classifier applied to utterances                                    *)
(***************************************************************************)
Upper(s) ==
    [i \in 1..Len(s) |->
        IF \E c \in DOMAIN UpperToLower : UpperToLower[c] = s[i]
        THEN CHOOSE c \in DOMAIN UpperToLower : UpperToLower[c] = s[i]
        ELSE s[i]]

RewriteHello ==
    <<"R","e","w","r","i","t","e",":"," ","h","e","l","l","o">>
MoreProfessional ==
    <<"p","l","e","a","s","e"," ","m","a","k","e"," ","i","t"," ","m","o","r","e"," ",
      "p","r","o","f","e","s","s","i","o","n","a","l">>
MakeProfessional ==
    <<"p","l","e","a","s","e"," ","m","a","k","e"," ","i","t"," ",
      "p","r","o","f","e","s","s","i","o","n","a","l">>
WhatTime ==
    <<"w","h","a","t"," ","t","i","m","e"," ","i","s"," ","i","t">>

BaseUtterances ==
    { RewriteHello, MoreProfessional, MakeProfessional, WhatTime,
      <<>>,
      <<"s","t","o","n","e">>,
      <<"f","i","x"," ","t","h","i","s">>,
      <<"C","a","s","u","a","l",":"," ","h","i">>,
      <<"h","i"," ","c","a","s","u","a","l",":"," ","x">>,
      <<"w","o","r","d"," "," ","t","h","i","s">>,
      <<"F","i","x"," ","G","r","a","m","m","a","r">> }

Pads == SeqsUpTo({" ", NL, "\t"}, MaxPad)

Utterances ==
    {l \o v \o r : l \in Pads, r \in Pads,
                   v \in UNION {{b, Upper(b), Lower(b)} : b \in BaseUtterances}}

InitIntent ==
    /\ utter \in Utterances
    /\ verdict = <<>>
    /\ history = <<>> /\ pc = "idle" /\ req = NoRequest /\ msg = <<>> /\ pre = <<>>
    /\ prompt = NoPrompt /\ calls = 0 /\ reply = None /\ resp = NoResp
    /\ txt_in = <<>> /\ txt_cur = <<>> /\ stage = "none"
    /\ ctx_hist = <<>> /\ ctx_limit = 0 /\ ctx_out = None

Classify ==
    /\ verdict = <<>>
    /\ verdict' = <<is_rewrite_intent(utter)>>
    /\ UNCHANGED <<utter, sessionVars, textVars, contextVars>>

NextIntent == Classify

SpecIntent == InitIntent /\ [][NextIntent]_vars

(***************************************************************************)
(* build_context applied to histories and limits                           *)
(***************************************************************************)
CtxTurns ==
    { Turn("user", <<"h", "i">>),
      Turn("bot", <<"<", "b", ">", "o", "k", "<", "/", "b", ">">>),
      Turn("user", <<"a", "<", "b", "r", ">", "b">>) }

InitContext ==
    /\ ctx_hist \in SeqsUpTo(CtxTurns, MaxCtxLen)
    /\ ctx_limit \in 0..MaxLimit
    /\ ctx_out = None
    /\ history = <<>> /\ pc = "idle" /\ req = NoRequest /\ msg = <<>> /\ pre = <<>>
    /\ prompt = NoPrompt /\ calls = 0 /\ reply = None /\ resp = NoResp
    /\ txt_in = <<>> /\ txt_cur = <<>> /\ stage = "none"
    /\ utter = <<>> /\ verdict = <<>>

BuildContext ==
    /\ ctx_out = None
    /\ ctx_out' = build_context(ctx_hist, ctx_limit)
    /\ UNCHANGED <<ctx_hist, ctx_limit, sessionVars, textVars, intentVars>>

NextContext == BuildContext

SpecContext == InitContext /\ [][NextContext]_vars

(***************************************************************************)
(* Properties                                                              *)
(***************************************************************************)
IsPrefix(a, b) == Len(a) <= Len(b) /\ SubSeq(b, 1, Len(a)) = a

\* the restart acknowledgment as the page shows it
RestartAck ==
    <<"<","b",">","R","e","w","o","r","d","l","y",":","<","/","b",">"," ","S","t","a","r",
      "t","i","n","g"," ","a"," ","n","e","w"," ","c","o","n","v","e","r","s","a","t","i",
      "o","n"," ","U+2705","<","b","r",">","W","h","a","t"," ","w","o","u","l","d"," ","y",
      "o","u"," ","l","i","k","e"," ","h","e","l","p"," ","w","i","t","h"," ","t","o","d",
      "a","y","?">>

IsReset == req.method = "POST" /\ req.action = "reset"
IsSend  == req.method = "POST" /\ req.action # "reset"
Blank(m) == \A i \in 1..Len(m) : m[i] \in Whitespace

\* the first and last index of m that hold no whitespace
FirstInk(m) == Min({i \in 1..Len(m) : m[i] \notin Whitespace})
LastInk(m)  == CHOOSE i \in 1..Len(m) :
                   m[i] \notin Whitespace /\ \A j \in (i + 1)..Len(m) : m[j] \in Whitespace
Trimmed(m)  == IF Blank(m) THEN <<>> ELSE SubSeq(m, FirstInk(m), LastInk(m))

\* the user turn the request stores for its message
SentTurn == <<"user", format_bot_text(Trimmed(msg))>>

\* C1: after a POST with action=reset the history is exactly one turn, from
\* the bot, whose text is the fixed restart acknowledgment, whatever the
\* history before it and whatever message field came with the request.
C1_ResetLeavesRestartTurn ==
    IsReset => history = << <<"bot", RestartAck>> >>

C1_Witness ==
    /\ IsReset
    /\ Len(pre) >= 3
    /\ ~Blank(msg)
    /\ Len(history) = 1

\* C2: when the inference call fails (network error, non-success status,
\* malformed or non-object body) call_ollama returns the unreachable-backend
\* fallback, and the request completes with the user turn and a bot turn
\* holding exactly that fallback text stored after the turns it found.
BackendFailed == resp.kind \in FailureKinds \/ resp.content = NonString

C2_FailureStoresFallback ==
    (pc = "idle" /\ BackendFailed) =>
        /\ reply = UNREACHABLE
        /\ history = pre \o <<SentTurn, <<"bot", UNREACHABLE>> >>

C2_Witness ==
    /\ pc = "idle"
    /\ resp.kind = "non_object"
    /\ Len(pre) >= 3
    /\ history[Len(history)] = <<"bot", UNREACHABLE>>

\* C3: a POST that is no reset and whose message is empty or only whitespace
\* leaves the history exactly as it found it, the empty history included.
C3_BlankMessageIgnored ==
    (IsSend /\ Blank(msg)) => (history = pre /\ pc = "idle")

C3_Witness ==
    /\ IsSend
    /\ msg = <<" ", NL>>
    /\ pre = <<>>
    /\ history = <<>>

\* C4: every step of a session other than a reset leaves the history it
\* found as a prefix of the history it leaves; a reset replaces the history
\* with the single greeting turn.
C4_AppendOnlyExceptReset ==
    [][ IF pc = "idle" /\ req'.method = "POST" /\ req'.action = "reset"
        THEN history' = << <<"bot", RestartAck>> >>
        ELSE IsPrefix(history, history') ]_vars

C4_Witness ==
    /\ IsSend
    /\ pc = "idle"
    /\ Len(pre) >= 3
    /\ Len(history) = Len(pre) + 2
    /\ IsPrefix(pre, history)

\* C9: a POST with a non-blank message issues exactly one inference call,
\* whether it succeeds or fails, and completes with exactly one user turn and
\* one bot turn appended; a GET, a reset and a blank POST issue none.
C9_SingleAttempt ==
    /\ pc = "calling" => (IsSend /\ ~Blank(msg) /\ calls = 1)
    /\ (pc = "idle" /\ IsSend /\ ~Blank(msg)) =>
          /\ calls = 1
          /\ Len(history) = Len(pre) + 2
          /\ IsPrefix(pre, history)
          /\ history[Len(pre) + 1][1] = "user"
          /\ history[Len(pre) + 2][1] = "bot"
    /\ (req.method = "GET" \/ IsReset \/ (IsSend /\ Blank(msg))) => calls = 0

C9_Witness ==
    /\ pc = "idle"
    /\ IsSend
    /\ resp.kind = "network_error"
    /\ calls = 1
    /\ Len(history) = Len(pre) + 2

\* C10: the prompt of a non-blank message is built after the user turn is
\* stored: its transcript is the lines of the last 4 turns (at most) that
\* preceded the message followed by the "You:" line of the message itself,
\* its User section is the message, and the bot reply is not in it.
LastTurns(h, n) == SubSeq(h, (IF Len(h) > n THEN Len(h) - n ELSE 0) + 1, Len(h))

LinesOf(h) == [i \in 1..Len(h) |-> ContextLine(h[i])]

C10_PromptEndsWithCurrentMessage ==
    (IsSend /\ ~Blank(msg)) =>
        /\ prompt.user = Trimmed(msg)
        /\ prompt.context =
              Join(LinesOf(LastTurns(pre, ContextLimit - 1)) \o <<ContextLine(SentTurn)>>,
                   <<NL>>)

C10_Witness ==
    /\ pc = "calling"
    /\ Len(pre) >= ContextLimit
    /\ prompt.user # <<"h", "i">>

\* a tag: a "<" followed on the same line by a ">"
HasTag(s) ==
    \E i, j \in 1..Len(s) :
        /\ i < j
        /\ s[i] = "<"
        /\ s[j] = ">"
        /\ \A k \in (i + 1)..(j - 1) : s[k] # NL

\* C5: for every history and every limit >= 0 build_context returns the
\* lines of exactly the last min(limit, length) turns, in order, joined by
\* line breaks, each the speaker label followed by the sanitized text.
ExpectedTranscript(h, limit) ==
    LET n == IF limit < Len(h) THEN limit ELSE Len(h)
    IN  Join([i \in 1..n |-> ContextLine(h[Len(h) - n + i])], <<NL>>)

C5_LastLimitTurns ==
    ctx_out # None => ctx_out = ExpectedTranscript(ctx_hist, ctx_limit)

\* C6 as stated: strip_html returns a text without tags unchanged, and from
\* a text with tags it returns a text holding no "<" and no ">" at all.
C6_NoAngleBracketLeft ==
    stage = "sanitized" =>
        IF ~HasTag(txt_in) THEN txt_cur = txt_in
        ELSE \A i \in 1..Len(txt_cur) : txt_cur[i] \notin {"<", ">"}

\* C6: strip_html returns a text without tags unchanged, and from a text
\* with tags it returns a text holding no tag; a "<" or ">" that closes or
\* opens no tag stays.
C6_NoTagLeft ==
    stage = "sanitized" =>
        IF ~HasTag(txt_in) THEN txt_cur = txt_in
        ELSE ~HasTag(txt_cur)

C6_Witness ==
    /\ stage = "sanitized"
    /\ HasTag(txt_in)
    /\ txt_cur # <<>>
    /\ \E i \in 1..Len(txt_cur) : txt_cur[i] = ">"

\* C7: for every text without markup, sanitizing the formatted text gives
\* the text back unchanged.
NoMarkup(s) == \A i \in 1..Len(s) : s[i] \notin {"*", "<", ">"}

C7_PlainTextRoundTrip ==
    (stage = "fed_back" /\ NoMarkup(txt_in)) => txt_cur = txt_in

\* what C8 expects of an utterance: lower-cased and trimmed, it starts with a
\* command prefix or holds a keyword somewhere
ExpectedIntent(u) ==
    LET n == Lower(Trimmed(u))
    IN  \/ \E p \in DOMAIN command_prefixes : IsPrefix(command_prefixes[p], n)
        \/ \E k \in DOMAIN keywords, i \in 0..Len(n) :
              /\ i + Len(keywords[k]) <= Len(n)
              /\ \A x \in 1..Len(keywords[k]) : n[i + x] = keywords[k][x]

\* the utterance in other letter case and with other whitespace around it
SomePads == {<<>>, <<" ">>, <<NL, "\t">>}

Variants(u) ==
    {Lower(u), Upper(u), Trimmed(u)} \cup {l \o u \o r : l \in SomePads, r \in SomePads}

IntentContract ==
    /\ verdict[1] = ExpectedIntent(utter)
    /\ \A v \in Variants(utter) : is_rewrite_intent(v) = verdict[1]
    /\ utter = RewriteHello => verdict[1]
    /\ utter = WhatTime => ~verdict[1]

\* C8 as stated: is_rewrite_intent is true exactly for an utterance that,
\* lower-cased and trimmed, starts with a command prefix or holds a keyword;
\* letter case and surrounding whitespace do not matter; "Rewrite: hello"
\* and "please make it more professional" give true, "what time is it" false.
C8_AsStated ==
    verdict # <<>> =>
        /\ IntentContract
        /\ utter = MoreProfessional => verdict[1]

\* C8: the same, except that "please make it more professional" gives false
\* (no keyword occurs in it: the list holds "make it professional") and
\* "please make it professional" gives true.
C8_IntentByPrefixOrKeyword ==
    verdict # <<>> =>
        /\ IntentContract
        /\ utter = MoreProfessional => ~verdict[1]
        /\ utter = MakeProfessional => verdict[1]

C8_Witness ==
    /\ utter = MoreProfessional
    /\ verdict = <<FALSE>>
====
